---- MODULE Spec2Model ----
(***************************************************************************)
(* Model of the MessagePack streaming encoder of rmp-futures               *)
(* (src/src/encode.rs): the minimal-width integer selector                 *)
(* (impl From<u8..i64> for EfficientInt) and MsgPackSink's write_*         *)
(* operations over an AsyncWrite stream.                                   *)
(*                                                                         *)
(* Integers wider than 31 bits do not fit a TLC integer, so a native       *)
(* integer is its bit pattern held as base-65536 limbs (most significant   *)
(* first) and a mathematical integer is a sign and a 4-limb magnitude.     *)
(*                                                                         *)
(* Every record constructor lists its fields in the order TLC keeps them   *)
(* (the order in which the names are first read), so that a                *)
(* record is never reordered after it is built.                            *)
(***************************************************************************)
EXTENDS Integers, Sequences, FiniteSets, TLC

\* ------------------------------------------------------------------ bounds
\* number of nodes of the value trees given to write_value
MaxNodes == 4
\* length of the payloads given to write_bin / write_str / write_ext
MaxData == 2

\* ------------------------------------------------- mathematical integers
Z(neg, a, b, c, d) == [neg |-> neg, mag |-> <<a, b, c, d>>]

Pz(a, b, c, d) == Z(FALSE, a, b, c, d)

Nz(a, b, c, d) == Z(TRUE, a, b, c, d)

\* a small TLC integer as a mathematical integer
Zs(n) == IF n < 0 THEN Nz(0, 0, 0, 0 - n) ELSE Pz(0, 0, 0, n)

MagLt(m, n) ==
    \E i \in 1..4 : m[i] < n[i] /\ \A j \in 1..(i - 1) : m[j] = n[j]

ZLt(x, y) ==
    IF x.neg /\ ~y.neg THEN TRUE
    ELSE IF ~x.neg /\ y.neg THEN FALSE
    ELSE IF x.neg THEN MagLt(y.mag, x.mag)
    ELSE MagLt(x.mag, y.mag)

ZLe(x, y) == x = y \/ ZLt(x, y)

ZBetween(lo, x, hi) == ZLe(lo, x) /\ ZLe(x, hi)

\* ------------------------------------------------------ native integers
IntTypes == {"u8", "u16", "u32", "u64", "i8", "i16", "i32", "i64"}

Signed(ty) == ty \in {"i8", "i16", "i32", "i64"}

\* width of a type in bytes
Width(ty) ==
    CASE ty \in {"u8", "i8"} -> 1
      [] ty \in {"u16", "i16"} -> 2
      [] ty \in {"u32", "i32"} -> 4
      [] ty \in {"u64", "i64"} -> 8

\* limbs that hold the bit pattern of a type (an 8-bit pattern is one limb
\* below 256)
NLimbs(ty) == IF Width(ty) = 1 THEN 1 ELSE Width(ty) \div 2

\* the limb radix, as the modulus of one limb of a type
LimbMod(ty) == IF Width(ty) = 1 THEN 256 ELSE 65536

TypeMin(ty) ==
    CASE ty \in {"u8", "u16", "u32", "u64"} -> Pz(0, 0, 0, 0)
      [] ty = "i8" -> Nz(0, 0, 0, 128)
      [] ty = "i16" -> Nz(0, 0, 0, 32768)
      [] ty = "i32" -> Nz(0, 0, 32768, 0)
      [] ty = "i64" -> Nz(32768, 0, 0, 0)

TypeMax(ty) ==
    CASE ty = "u8" -> Pz(0, 0, 0, 255)
      [] ty = "i8" -> Pz(0, 0, 0, 127)
      [] ty = "u16" -> Pz(0, 0, 0, 65535)
      [] ty = "i16" -> Pz(0, 0, 0, 32767)
      [] ty = "u32" -> Pz(0, 0, 65535, 65535)
      [] ty = "i32" -> Pz(0, 0, 32767, 65535)
      [] ty = "u64" -> Pz(65535, 65535, 65535, 65535)
      [] ty = "i64" -> Pz(32767, 65535, 65535, 65535)

Native(ty, bits) == [ty |-> ty, bits |-> bits]

\* Ok(val) and Err of a conversion
Result(val, ok) == [val |-> val, ok |-> ok]

\* the low n elements of a sequence
Low(s, n) == SubSeq(s, Len(s) - n + 1, Len(s))

\* zero-extension of a limb sequence to 4 limbs
Pad4(s) == [i \in 1..(4 - Len(s)) |-> 0] \o s

RECURSIVE Inc(_, _)
\* s + 1 on limbs of modulus m, wrapping
Inc(s, m) ==
    IF s = <<>> THEN <<>>
    ELSE LET n == Len(s)
         IN  IF s[n] < m - 1
             THEN [s EXCEPT ![n] = s[n] + 1]
             ELSE Inc(SubSeq(s, 1, n - 1), m) \o <<0>>

\* two's complement negation of a bit pattern
TwosNeg(s, m) == Inc([i \in DOMAIN s |-> (m - 1) - s[i]], m)

SignBit(x) == Signed(x.ty) /\ x.bits[1] >= LimbMod(x.ty) \div 2

\* the numeric value of a native integer
Num(x) ==
    IF SignBit(x)
    THEN [neg |-> TRUE, mag |-> Pad4(TwosNeg(x.bits, LimbMod(x.ty)))]
    ELSE [neg |-> FALSE, mag |-> Pad4(x.bits)]

\* the native integer of type ty whose value is z (a literal of the
\* program's source such as -33i16); z within the type's range
Lit(ty, z) ==
    LET m == IF Width(ty) = 1 THEN <<z.mag[4]>> ELSE Low(z.mag, NLimbs(ty))
    IN  Native(ty, IF z.neg THEN TwosNeg(m, LimbMod(ty)) ELSE m)

InRange(ty, z) == ZBetween(TypeMin(ty), z, TypeMax(ty))

\* `x as ty` for a target no wider than the source: the low bits
Cast(ty, x) ==
    LET low == Low(x.bits, NLimbs(ty))
    IN  Native(ty, IF Width(ty) = 1 THEN <<low[1] % 256>> ELSE low)

\* `x as ty` in place of ty::try_from(x): never Err, the value truncated
TryFrom_as_cast(ty, x) == Result(Cast(ty, x), TRUE)

\* ty::try_from(x): Ok(x as ty) when the value is in ty's range
TryFrom(ty, x) ==
    IF InRange(ty, Num(x)) THEN Result(Cast(ty, x), TRUE) ELSE Result(x, FALSE)

RECURSIVE BitAnd(_, _)
BitAnd(a, b) ==
    IF a = 0 \/ b = 0 THEN 0
    ELSE (a % 2) * (b % 2) + 2 * BitAnd(a \div 2, b \div 2)

\* ------------------------------------------- minimal-width int selector
EfficientInt(tag, val) == [val |-> val, tag |-> tag]

\* From<u8> with the mask 0xff for 0x7f: every u8 is FixPos
From_u8_mask_ff(val) ==
    IF BitAnd(val.bits[1], 255) = val.bits[1]
    THEN EfficientInt("FixPos", val)
    ELSE EfficientInt("U8", val)

From_u8(val) ==
    IF BitAnd(val.bits[1], 127) = val.bits[1]
    THEN EfficientInt("FixPos", val)
    ELSE EfficientInt("U8", val)

\* From<i8> with the mask 0b1100_0000: -64..-33 become FixNeg
From_i8_mask_c0(val) ==
    LET u == TryFrom("u8", val)
    IN  IF u.ok THEN From_u8(u.val)
        ELSE IF BitAnd(Cast("u8", val).bits[1], 192) = 192
             THEN EfficientInt("FixNeg", val)
             ELSE EfficientInt("I8", val)

From_i8(val) ==
    LET u == TryFrom("u8", val)
    IN  IF u.ok THEN From_u8(u.val)
        ELSE IF BitAnd(Cast("u8", val).bits[1], 224) = 224
             THEN EfficientInt("FixNeg", val)
             ELSE EfficientInt("I8", val)

From_u16(val) ==
    LET u == TryFrom("u8", val)
    IN  IF u.ok THEN From_u8(u.val) ELSE EfficientInt("U16", val)

From_i16(val) ==
    LET u == TryFrom("u16", val)
        i == TryFrom("i8", val)
    IN  IF u.ok THEN From_u16(u.val)
        ELSE IF i.ok THEN From_i8(i.val)
        ELSE EfficientInt("I16", val)

From_u32(val) ==
    LET u == TryFrom("u16", val)
    IN  IF u.ok THEN From_u16(u.val) ELSE EfficientInt("U32", val)

\* From<i32> without the unsigned delegation
From_i32_signed_only(val) ==
    LET i == TryFrom("i16", val)
    IN  IF i.ok THEN From_i16(i.val) ELSE EfficientInt("I32", val)

From_i32(val) ==
    LET u == TryFrom("u32", val)
        i == TryFrom("i16", val)
    IN  IF u.ok THEN From_u32(u.val)
        ELSE IF i.ok THEN From_i16(i.val)
        ELSE EfficientInt("I32", val)

From_u64(val) ==
    LET u == TryFrom("u32", val)
    IN  IF u.ok THEN From_u32(u.val) ELSE EfficientInt("U64", val)

From_i64(val) ==
    LET u == TryFrom("u64", val)
        i == TryFrom("i32", val)
    IN  IF u.ok THEN From_u64(u.val)
        ELSE IF i.ok THEN From_i32(i.val)
        ELSE EfficientInt("I64", val)

\* val.into() for val of any supported type
From(val) ==
    CASE val.ty = "u8" -> From_u8(val)
      [] val.ty = "i8" -> From_i8(val)
      [] val.ty = "u16" -> From_u16(val)
      [] val.ty = "i16" -> From_i16(val)
      [] val.ty = "u32" -> From_u32(val)
      [] val.ty = "i32" -> From_i32(val)
      [] val.ty = "u64" -> From_u64(val)
      [] val.ty = "i64" -> From_i64(val)

\* the integer kind a variant's payload has
PayloadType(tag) ==
    CASE tag \in {"FixPos", "U8"} -> "u8"
      [] tag = "U16" -> "u16"
      [] tag = "U32" -> "u32"
      [] tag = "U64" -> "u64"
      [] tag \in {"FixNeg", "I8"} -> "i8"
      [] tag = "I16" -> "i16"
      [] tag = "I32" -> "i32"
      [] tag = "I64" -> "i64"

\* ---------------------------------------------------------- rmp::Marker
RECURSIVE BitOr(_, _)
BitOr(a, b) ==
    IF a = 0 THEN b
    ELSE IF b = 0 THEN a
    ELSE (IF a % 2 = 1 \/ b % 2 = 1 THEN 1 ELSE 0)
         + 2 * BitOr(a \div 2, b \div 2)

Marker(name, arg) == [name |-> name, arg |-> arg]

\* Marker::to_u8; arg is the u8 (or i8) a Fix* marker carries
MarkerToU8(marker) ==
    LET n == marker.name
        a == marker.arg
    IN  CASE n = "FixPos" -> a.bits[1]
          [] n = "FixNeg" -> Cast("u8", a).bits[1]
          [] n = "FixMap" -> BitOr(128, BitAnd(a.bits[1], 15))
          [] n = "FixArray" -> BitOr(144, BitAnd(a.bits[1], 15))
          [] n = "FixStr" -> BitOr(160, BitAnd(a.bits[1], 31))
          [] n = "Null" -> 192
          [] n = "False" -> 194
          [] n = "True" -> 195
          [] n = "Bin8" -> 196
          [] n = "Bin16" -> 197
          [] n = "Bin32" -> 198
          [] n = "Ext8" -> 199
          [] n = "Ext16" -> 200
          [] n = "Ext32" -> 201
          [] n = "F32" -> 202
          [] n = "F64" -> 203
          [] n = "U8" -> 204
          [] n = "U16" -> 205
          [] n = "U32" -> 206
          [] n = "U64" -> 207
          [] n = "I8" -> 208
          [] n = "I16" -> 209
          [] n = "I32" -> 210
          [] n = "I64" -> 211
          [] n = "FixExt1" -> 212
          [] n = "FixExt2" -> 213
          [] n = "FixExt4" -> 214
          [] n = "FixExt8" -> 215
          [] n = "FixExt16" -> 216
          [] n = "Str8" -> 217
          [] n = "Str16" -> 218
          [] n = "Str32" -> 219
          [] n = "Array16" -> 220
          [] n = "Array32" -> 221
          [] n = "Map16" -> 222
          [] n = "Map32" -> 223

\* a marker that carries nothing
M(name) == Marker(name, Native("u8", <<0>>))

\* ------------------------------------------------ steps of an operation
\* An operation (an async fn) is the sequence of write_all calls it awaits,
\* in order; a step is one such call, or a panic.
WriteAll(bytes) == [bytes |-> bytes, panic |-> FALSE]

PanicStep == [bytes |-> <<>>, panic |-> TRUE]

\* LittleEndian in place of BigEndian: least significant byte first
LittleEndian(val) ==
    IF Width(val.ty) = 1 THEN <<val.bits[1]>>
    ELSE LET n == Len(val.bits)
         IN  [i \in 1..(2 * n) |->
                IF i % 2 = 1 THEN val.bits[n + 1 - (i + 1) \div 2] % 256
                ELSE val.bits[n + 1 - i \div 2] \div 256]

\* BigEndian::write_u16/u32/u64/i16/i32/i64: the bit pattern, most
\* significant byte first (an 8-bit value is its one byte)
BigEndian(val) ==
    IF Width(val.ty) = 1 THEN <<val.bits[1]>>
    ELSE LET n == Len(val.bits)
         IN  [i \in 1..(2 * n) |->
                IF i % 2 = 1 THEN val.bits[(i + 1) \div 2] \div 256
                ELSE val.bits[i \div 2] % 256]

write_1(val) == <<WriteAll(val)>>

write_2(val) == <<WriteAll(val)>>

write_4(val) == <<WriteAll(val)>>

write_8(val) == <<WriteAll(val)>>

write_u8(val) == write_1(<<val.bits[1]>>)

write_u16(val) == write_2(BigEndian(val))

write_u32(val) == write_4(BigEndian(val))

write_u64(val) == write_8(BigEndian(val))

write_i8(val) == write_1(<<Cast("u8", val).bits[1]>>)

write_i16(val) == write_2(BigEndian(val))

write_i32(val) == write_4(BigEndian(val))

write_i64(val) == write_8(BigEndian(val))

write_marker(marker) == write_u8(Native("u8", <<MarkerToU8(marker)>>))

\* ------------------------------------------------- MsgPackSink operations
\* <op>_fut is the future the async fn <op> returns: its steps in order.
\* `?` and the final `.map(|()| self.writer)` are the step actions below.
write_nil_fut == write_marker(M("Null"))

write_bool_fut(val) ==
    IF val THEN write_marker(M("True")) ELSE write_marker(M("False"))

write_efficient_int_fut(val) ==
    LET v == val.val
    IN  CASE val.tag = "FixPos" -> write_marker(Marker("FixPos", v))
          [] val.tag = "U8" -> write_marker(M("U8")) \o write_u8(v)
          [] val.tag = "U16" -> write_marker(M("U16")) \o write_u16(v)
          [] val.tag = "U32" -> write_marker(M("U32")) \o write_u32(v)
          [] val.tag = "U64" -> write_marker(M("U64")) \o write_u64(v)
          [] val.tag = "FixNeg" -> write_marker(Marker("FixNeg", v))
          [] val.tag = "I8" -> write_marker(M("I8")) \o write_i8(v)
          [] val.tag = "I16" -> write_marker(M("I16")) \o write_i16(v)
          [] val.tag = "I32" -> write_marker(M("I32")) \o write_i32(v)
          [] val.tag = "I64" -> write_marker(M("I64")) \o write_i64(v)

write_int_fut(val) == write_efficient_int_fut(From(val))

\* a float is its IEEE-754 bit pattern (f32::to_bits as u32, f64 as u64)
write_f32_fut(val) == write_marker(M("F32")) \o write_4(BigEndian(val))

write_f64_fut(val) == write_marker(M("F64")) \o write_8(BigEndian(val))

\* write_array_len with the first arm 0..=16
write_array_len_fut_16(len) ==
    IF ZBetween(Zs(0), Num(len), Zs(16))
    THEN write_marker(Marker("FixArray", Cast("u8", len)))
    ELSE IF ZBetween(Zs(17), Num(len), TypeMax("u16"))
    THEN write_marker(M("Array16")) \o write_u16(Cast("u16", len))
    ELSE write_marker(M("Array32")) \o write_u32(len)

write_array_len_fut(len) ==
    IF ZBetween(Zs(0), Num(len), Zs(15))
    THEN write_marker(Marker("FixArray", Cast("u8", len)))
    ELSE IF ZBetween(Zs(16), Num(len), TypeMax("u16"))
    THEN write_marker(M("Array16")) \o write_u16(Cast("u16", len))
    ELSE write_marker(M("Array32")) \o write_u32(len)

write_map_len_fut(len) ==
    IF ZBetween(Zs(0), Num(len), Zs(15))
    THEN write_marker(Marker("FixMap", Cast("u8", len)))
    ELSE IF ZBetween(Zs(16), Num(len), TypeMax("u16"))
    THEN write_marker(M("Map16")) \o write_u16(Cast("u16", len))
    ELSE write_marker(M("Map32")) \o write_u32(len)

write_bin_len_fut(len) ==
    LET l8 == TryFrom("u8", len)
        l16 == TryFrom("u16", len)
    IN  IF l8.ok THEN write_marker(M("Bin8")) \o write_u8(l8.val)
        ELSE IF l16.ok THEN write_marker(M("Bin16")) \o write_u16(l16.val)
        ELSE write_marker(M("Bin32")) \o write_u32(len)

\* the length taken one too large
LenU32_plus_one(data) == Lit("u32", Zs(Len(data) + 1))

\* data.len().try_into().unwrap(), for the short payloads of this model
LenU32(data) == Lit("u32", Zs(Len(data)))

write_bin_fut(data) == write_bin_len_fut(LenU32(data)) \o <<WriteAll(data)>>

\* write_str_len with `len <= 32` for `len < 32`
write_str_len_fut_le32(len) ==
    LET l8 == TryFrom("u8", len)
        l16 == TryFrom("u16", len)
    IN  IF l8.ok
        THEN IF l8.val.bits[1] <= 32
             THEN write_marker(Marker("FixStr", l8.val))
             ELSE write_marker(M("Str8")) \o write_u8(l8.val)
        ELSE IF l16.ok THEN write_marker(M("Str16")) \o write_u16(l16.val)
        ELSE write_marker(M("Str32")) \o write_u32(len)

write_str_len_fut(len) ==
    LET l8 == TryFrom("u8", len)
        l16 == TryFrom("u16", len)
    IN  IF l8.ok
        THEN IF l8.val.bits[1] < 32
             THEN write_marker(Marker("FixStr", l8.val))
             ELSE write_marker(M("Str8")) \o write_u8(l8.val)
        ELSE IF l16.ok THEN write_marker(M("Str16")) \o write_u16(l16.val)
        ELSE write_marker(M("Str32")) \o write_u32(len)

write_str_bytes_fut(string) ==
    write_str_len_fut(LenU32(string)) \o <<WriteAll(string)>>

\* a &str is its UTF-8 bytes (str::as_bytes)
write_str_fut(string) == write_str_bytes_fut(string)

\* write_ext_meta without the arm for 16
ext_meta_body_no16(len, ty) ==
    LET l8 == TryFrom("u8", len)
        l16 == TryFrom("u16", len)
        n == l8.val.bits[1]
        head ==
            IF l8.ok
            THEN CASE n = 1 -> write_marker(M("FixExt1"))
                   [] n = 2 -> write_marker(M("FixExt2"))
                   [] n = 4 -> write_marker(M("FixExt4"))
                   [] n = 8 -> write_marker(M("FixExt8"))
                   [] OTHER -> write_marker(M("Ext8")) \o write_u8(l8.val)
            ELSE IF l16.ok
            THEN write_marker(M("Ext16")) \o write_u16(l16.val)
            ELSE write_marker(M("Ext32")) \o write_u32(len)
    IN  head \o write_u8(Cast("u8", ty))

\* write_ext_meta after its assertion
ext_meta_body(len, ty) ==
    LET l8 == TryFrom("u8", len)
        l16 == TryFrom("u16", len)
        n == l8.val.bits[1]
        head ==
            IF l8.ok
            THEN CASE n = 1 -> write_marker(M("FixExt1"))
                   [] n = 2 -> write_marker(M("FixExt2"))
                   [] n = 4 -> write_marker(M("FixExt4"))
                   [] n = 8 -> write_marker(M("FixExt8"))
                   [] n = 16 -> write_marker(M("FixExt16"))
                   [] OTHER -> write_marker(M("Ext8")) \o write_u8(l8.val)
            ELSE IF l16.ok
            THEN write_marker(M("Ext16")) \o write_u16(l16.val)
            ELSE write_marker(M("Ext32")) \o write_u32(len)
    IN  head \o write_u8(Cast("u8", ty))

\* write_ext_meta without its assertion
write_ext_meta_fut_unchecked(len, ty) == ext_meta_body(len, ty)

\* assert!(ty >= 0) comes first
write_ext_meta_fut(len, ty) ==
    IF ~ZLe(Zs(0), Num(ty)) THEN <<PanicStep>> ELSE ext_meta_body(len, ty)

write_ext_fut(data, ty) ==
    write_ext_meta_fut(LenU32(data), ty) \o <<WriteAll(data)>>

\* ---------------------------------------------------------- rmpv::Value
NoInt == Native("u8", <<0>>)

Value(kind, b, int, bytes, items) ==
    [b |-> b, bytes |-> bytes, kind |-> kind, int |-> int, items |-> items]

Nil == Value("Nil", FALSE, NoInt, <<>>, <<>>)

Boolean(b) == Value("Boolean", b, NoInt, <<>>, <<>>)

\* int is a u64 (PosInt) or a negative i64 (NegInt)
Integer(int) == Value("Integer", FALSE, int, <<>>, <<>>)

F32(bits) == Value("F32", FALSE, bits, <<>>, <<>>)

F64(bits) == Value("F64", FALSE, bits, <<>>, <<>>)

String(bytes) == Value("String", FALSE, NoInt, bytes, <<>>)

Binary(bytes) == Value("Binary", FALSE, NoInt, bytes, <<>>)

Array(items) == Value("Array", FALSE, NoInt, <<>>, items)

\* items are <<key, value>> pairs
Map(items) == Value("Map", FALSE, NoInt, <<>>, items)

Ext(ty, bytes) == Value("Ext", FALSE, ty, bytes, <<>>)

\* as_i64 as a plain cast of the 64 bits
as_i64_cast(int) == Result(Cast("i64", int), TRUE)

\* Integer::as_i64 and Integer::as_u64
as_i64(int) ==
    IF int.ty = "i64" THEN Result(int, TRUE) ELSE TryFrom("i64", int)

as_u64(int) ==
    IF int.ty = "u64" THEN Result(int, TRUE) ELSE TryFrom("u64", int)

RECURSIVE write_value_fut(_)
RECURSIVE for_elems(_, _)
RECURSIVE for_pairs(_, _)
\* `for elem in a.iter()` from position i on
for_elems(a, i) ==
    IF i > Len(a) THEN <<>>
    ELSE write_value_fut(a[i]) \o for_elems(a, i + 1)

\* the Map arm writing each value before its key
for_pairs_value_first(m, i) ==
    IF i > Len(m) THEN <<>>
    ELSE write_value_fut(m[i][2]) \o write_value_fut(m[i][1])
         \o for_pairs(m, i + 1)

\* `for (k, v) in m.iter()` from position i on
for_pairs(m, i) ==
    IF i > Len(m) THEN <<>>
    ELSE write_value_fut(m[i][1]) \o write_value_fut(m[i][2])
         \o for_pairs(m, i + 1)

write_value_fut(value) ==
    CASE value.kind = "Nil" -> write_nil_fut
      [] value.kind = "Boolean" -> write_bool_fut(value.b)
      [] value.kind = "Integer" ->
            IF as_i64(value.int).ok
            THEN write_int_fut(as_i64(value.int).val)
            ELSE IF as_u64(value.int).ok
            THEN write_int_fut(as_u64(value.int).val)
            ELSE <<PanicStep>>
      [] value.kind = "F32" -> write_f32_fut(value.int)
      [] value.kind = "F64" -> write_f64_fut(value.int)
      [] value.kind = "String" -> write_str_bytes_fut(value.bytes)
      [] value.kind = "Binary" -> write_bin_fut(value.bytes)
      [] value.kind = "Array" ->
            write_array_len_fut(LenU32(value.items))
            \o for_elems(value.items, 1)
      [] value.kind = "Map" ->
            write_map_len_fut(LenU32(value.items))
            \o for_pairs(value.items, 1)
      [] value.kind = "Ext" -> write_ext_fut(value.bytes, value.int)

\* ------------------------------------------------------------- inputs
\* the values at and around every boundary of the selector
BoundaryZ ==
    { Zs(0), Zs(1), Zs(42), Zs(127), Zs(128), Zs(255), Zs(256), Zs(1000),
      Zs(32767), Zs(32768), Zs(65535), Pz(0, 0, 1, 0), Pz(0, 0, 1, 34464),
      Pz(0, 0, 32767, 65535), Pz(0, 0, 32768, 0), Pz(0, 0, 65535, 65535),
      Pz(0, 1, 0, 0), Pz(0, 1, 0, 1), Pz(32767, 65535, 65535, 65535),
      Pz(32768, 0, 0, 0), Pz(65535, 65535, 65535, 65535),
      Zs(-1), Zs(-5), Zs(-32), Zs(-33), Zs(-100), Zs(-128), Zs(-129),
      Zs(-1000), Zs(-32768), Zs(-32769), Nz(0, 0, 1, 34464),
      Nz(0, 0, 32768, 0), Nz(0, 0, 32768, 1), Nz(0, 1, 0, 0),
      Nz(32768, 0, 0, 0) }

IntInputs ==
    { Lit(p[1], p[2]) :
        p \in { q \in IntTypes \X BoundaryZ : InRange(q[1], q[2]) } }

\* declared counts and lengths (u32)
LenInputs ==
    { Lit("u32", z) :
        z \in { Zs(0), Zs(1), Zs(2), Zs(3), Zs(4), Zs(8), Zs(15), Zs(16),
                Zs(17), Zs(31), Zs(32), Zs(33), Zs(255), Zs(256), Zs(65535),
                Pz(0, 0, 1, 0), Pz(0, 0, 1, 1), Pz(0, 0, 65535, 65535) } }

\* extension type tags (i8)
TyInputs == { Lit("i8", Zs(t)) : t \in {0, 1, 42, 127, -1, -128} }

\* payloads of length 0..MaxData, and one of 33 bytes, past the fixed
\* string lengths and the fixed extension lengths
DataInputs == { [i \in 1..n |-> 160 + i] : n \in (0..MaxData) \cup {33} }

\* 1.1f32 and -0.0f32, 1.1f64 and -0.0f64, as bit patterns
F32Inputs == { Native("u32", <<16268, 52429>>), Native("u32", <<32768, 0>>) }

F64Inputs ==
    { Native("u64", <<16369, 39321, 39321, 39322>>),
      Native("u64", <<32768, 0, 0, 0>>) }

\* the Integer nodes rmpv can hold: any u64, or a negative i64
IntegerNodes ==
    { Integer(x) : x \in { y \in IntInputs :
        y.ty = "u64" \/ (y.ty = "i64" /\ Num(y).neg) } }

ScalarNodes ==
    {Nil, Boolean(TRUE), Boolean(FALSE)} \cup IntegerNodes
    \cup { F32(f) : f \in F32Inputs } \cup { F64(f) : f \in F64Inputs }
    \cup { String(d) : d \in DataInputs }
    \cup { Binary(d) : d \in DataInputs }
    \cup { Ext(p[1], p[2]) : p \in TyInputs \X DataInputs }

\* the leaves of the nested trees
One == Integer(Lit("u64", Zs(1)))

LeafNodes == { One, Integer(Lit("u64", Zs(128))) }

RECURSIVE TreesOfSize(_)
RECURSIVE Forests(_)
RECURSIVE PairForests(_)
\* the sequences of trees with n nodes in all
Forests(n) ==
    IF n = 0 THEN { <<>> }
    ELSE UNION { { <<t>> \o f : t \in TreesOfSize(k), f \in Forests(n - k) } :
                 k \in 1..n }

\* the sequences of <<key, value>> pairs with n nodes in all
PairForests(n) ==
    IF n = 0 THEN { <<>> }
    ELSE UNION { { << <<kv[1], kv[2]>> >> \o f :
                     kv \in UNION { TreesOfSize(i) \X TreesOfSize(k - i) :
                                     i \in 1..(k - 1) },
                     f \in PairForests(n - k) } :
                 k \in 2..n }

\* the trees with exactly n nodes
TreesOfSize(n) ==
    IF n = 1 THEN LeafNodes \cup { Array(<<>>), Map(<<>>) }
    ELSE { Array(f) : f \in Forests(n - 1) }
         \cup { Map(f) : f \in PairForests(n - 1) }

\* a tree whose second child hits the assertion of write_ext_meta
PanicTree == Array(<<One, Ext(Lit("i8", Zs(-1)), <<>>), One>>)

\* a map of two pairs, and arrays nested in arrays
TwoPairs == Map(<< <<One, Array(<<One>>)>>, <<Integer(Lit("u64", Zs(128))), One>> >>)

Nested == Array(<<Array(<<One>>), One>>)

ValueInputs ==
    ScalarNodes \cup UNION { TreesOfSize(n) : n \in 1..MaxNodes }
    \cup { PanicTree, TwoPairs, Nested }

\* ---------------------------------------------------------------- state
VARIABLES
    stream,   \* the bytes the underlying writer has accepted, in order
    sink,     \* "sink": the caller holds a MsgPackSink; "busy": an
              \* operation owns it; "writer": the operation returned Ok(W);
              \* "dropped": the operation ended in Err or a panic
    op,       \* the operation called last and its arguments
    eint,     \* the EfficientInt write_int selected (val.into())
    before,   \* the stream when the operation was called
    pending,  \* the steps the operation in progress has still to do
    result,   \* "none", "Ok", "Err" or "Panic"
    issued,   \* history: the operations called on this writer, in order
    wrapped   \* history: the stream when the writer was first wrapped

vars ==
    <<stream, sink, op, eint, before, pending, result, issued, wrapped>>

NoLen == Lit("u32", Zs(0))

Op(name, int, len, data, b, value) ==
    [b |-> b, name |-> name, len |-> len, data |-> data, int |-> int,
     value |-> value]

NoOp == Op("none", NoInt, NoLen, <<>>, FALSE, Nil)

NoEint == EfficientInt("none", NoInt)

\* bytes already in the writer that MsgPackSink::new wraps
PriorInputs == { <<>>, <<192>> }

Init ==
    /\ stream \in PriorInputs
    /\ sink = "sink"
    /\ op = NoOp
    /\ eint = NoEint
    /\ before = stream
    /\ pending = <<>>
    /\ result = "none"
    /\ issued = <<>>
    /\ wrapped = stream

\* a sink that remembers the count the last write_array_len declared and
\* refuses a child beyond it
Call_counting(o, e, fut) ==
    /\ sink' = "busy"
    /\ op' = o
    /\ eint' = e
    /\ before' = stream
    /\ pending' =
          IF /\ Len(issued) >= 2
             /\ issued[Len(issued) - 1].name = "write_array_len"
             /\ issued[Len(issued) - 1].len = Lit("u32", Zs(1))
          THEN <<PanicStep>>
          ELSE fut
    /\ result' = "none"
    /\ issued' = Append(issued, o)
    /\ UNCHANGED <<stream, wrapped>>

\* calling an operation on a sink the caller holds consumes the sink
\* (`self` by value)
Call(o, e, fut) ==
    /\ sink' = "busy"
    /\ op' = o
    /\ eint' = e
    /\ before' = stream
    /\ pending' = fut
    /\ result' = "none"
    /\ issued' = Append(issued, o)
    /\ UNCHANGED <<stream, wrapped>>

write_nil ==
    /\ sink = "sink"
    /\ Call(Op("write_nil", NoInt, NoLen, <<>>, FALSE, Nil), NoEint,
            write_nil_fut)

write_bool(S) ==
    \E val \in S :
        /\ sink = "sink"
        /\ Call(Op("write_bool", NoInt, NoLen, <<>>, val, Nil), NoEint,
                write_bool_fut(val))

write_int(S) ==
    \E val \in S :
        /\ sink = "sink"
        /\ Call(Op("write_int", val, NoLen, <<>>, FALSE, Nil), From(val),
                write_int_fut(val))

write_f32(S) ==
    \E val \in S :
        /\ sink = "sink"
        /\ Call(Op("write_f32", val, NoLen, <<>>, FALSE, Nil), NoEint,
                write_f32_fut(val))

write_f64(S) ==
    \E val \in S :
        /\ sink = "sink"
        /\ Call(Op("write_f64", val, NoLen, <<>>, FALSE, Nil), NoEint,
                write_f64_fut(val))

write_array_len(S) ==
    \E len \in S :
        /\ sink = "sink"
        /\ Call(Op("write_array_len", NoInt, len, <<>>, FALSE, Nil), NoEint,
                write_array_len_fut(len))

write_map_len(S) ==
    \E len \in S :
        /\ sink = "sink"
        /\ Call(Op("write_map_len", NoInt, len, <<>>, FALSE, Nil), NoEint,
                write_map_len_fut(len))

write_bin_len(S) ==
    \E len \in S :
        /\ sink = "sink"
        /\ Call(Op("write_bin_len", NoInt, len, <<>>, FALSE, Nil), NoEint,
                write_bin_len_fut(len))

write_bin(S) ==
    \E data \in S :
        /\ sink = "sink"
        /\ Call(Op("write_bin", NoInt, NoLen, data, FALSE, Nil), NoEint,
                write_bin_fut(data))

write_str_len(S) ==
    \E len \in S :
        /\ sink = "sink"
        /\ Call(Op("write_str_len", NoInt, len, <<>>, FALSE, Nil), NoEint,
                write_str_len_fut(len))

write_str_bytes(S) ==
    \E string \in S :
        /\ sink = "sink"
        /\ Call(Op("write_str_bytes", NoInt, NoLen, string, FALSE, Nil), NoEint,
                write_str_bytes_fut(string))

write_str(S) ==
    \E string \in S :
        /\ sink = "sink"
        /\ Call(Op("write_str", NoInt, NoLen, string, FALSE, Nil), NoEint,
                write_str_fut(string))

write_ext_meta(L, T) ==
    \E len \in L, ty \in T :
        /\ sink = "sink"
        /\ Call(Op("write_ext_meta", ty, len, <<>>, FALSE, Nil), NoEint,
                write_ext_meta_fut(len, ty))

write_ext(D, T) ==
    \E data \in D, ty \in T :
        /\ sink = "sink"
        /\ Call(Op("write_ext", ty, NoLen, data, FALSE, Nil), NoEint,
                write_ext_fut(data, ty))

write_value(S) ==
    \E value \in S :
        /\ sink = "sink"
        /\ Call(Op("write_value", NoInt, NoLen, <<>>, FALSE, value), NoEint,
                write_value_fut(value))

\* the error ignored: the remaining steps are still done
ContinueOnErr(rest) == rest

\* the `?` after an await that returned Err, and an Err in tail position:
\* the operation returns the error and does none of its remaining steps
AbortOnErr(rest) == <<>>

\* the operation returning Ok(self) in place of Ok(self.writer)
write_all_ok_returns_self ==
    /\ pending # <<>>
    /\ ~Head(pending).panic
    /\ stream' = stream \o Head(pending).bytes
    /\ pending' = Tail(pending)
    /\ IF Tail(pending) = <<>>
       THEN result' = "Ok" /\ sink' = "sink"
       ELSE UNCHANGED <<result, sink>>
    /\ UNCHANGED <<op, eint, before, issued, wrapped>>

\* the write_all the operation awaits accepts all its bytes; after the
\* last step the operation returns Ok(self.writer)
write_all_ok ==
    /\ pending # <<>>
    /\ ~Head(pending).panic
    /\ stream' = stream \o Head(pending).bytes
    /\ pending' = Tail(pending)
    /\ IF Tail(pending) = <<>>
       THEN result' = "Ok" /\ sink' = "writer"
       ELSE UNCHANGED <<result, sink>>
    /\ UNCHANGED <<op, eint, before, issued, wrapped>>

\* the write_all the operation awaits fails after the writer accepted
\* k of its bytes (write_all of no bytes cannot fail)
write_all_err ==
    /\ pending # <<>>
    /\ ~Head(pending).panic
    /\ \E k \in 0..(Len(Head(pending).bytes) - 1) :
          stream' = stream \o SubSeq(Head(pending).bytes, 1, k)
    /\ pending' = AbortOnErr(Tail(pending))
    /\ result' = "Err"
    /\ sink' = "dropped"
    /\ UNCHANGED <<op, eint, before, issued, wrapped>>

\* a failed assertion unwinds the operation
panic ==
    /\ pending # <<>>
    /\ Head(pending).panic
    /\ pending' = <<>>
    /\ result' = "Panic"
    /\ sink' = "dropped"
    /\ UNCHANGED <<stream, op, eint, before, issued, wrapped>>

\* MsgPackSink::new on another writer
new ==
    /\ sink \in {"writer", "dropped"}
    /\ stream' \in PriorInputs
    /\ sink' = "sink"
    /\ op' = NoOp
    /\ eint' = NoEint
    /\ before' = stream'
    /\ pending' = <<>>
    /\ result' = "none"
    /\ issued' = <<>>
    /\ wrapped' = stream'

Next ==
    \/ write_nil
    \/ write_bool(BOOLEAN)
    \/ write_int(IntInputs)
    \/ write_f32(F32Inputs)
    \/ write_f64(F64Inputs)
    \/ write_array_len(LenInputs)
    \/ write_map_len(LenInputs)
    \/ write_bin_len(LenInputs)
    \/ write_bin(DataInputs)
    \/ write_str_len(LenInputs)
    \/ write_str_bytes(DataInputs)
    \/ write_str(DataInputs)
    \/ write_ext_meta(LenInputs, TyInputs)
    \/ write_ext(DataInputs, TyInputs)
    \/ write_value(ValueInputs)
    \/ write_all_ok
    \/ write_all_err
    \/ panic
    \/ new

Spec == Init /\ [][Next]_vars

\* ------------------------------------------------------- chains of calls
\* the number of operations called on one writer
MaxOps == 3

\* the sink handed out while the operation that owns the writer is still
\* in progress
new_w_shared ==
    /\ sink \in {"busy", "writer"}
    /\ Len(issued) < MaxOps
    /\ sink' = "sink"
    /\ result' = "none"
    /\ UNCHANGED <<stream, op, eint, before, pending, issued, wrapped>>

\* MsgPackSink::new(w) on the writer w the caller holds: the one the last
\* operation returned in Ok(w), or the one into_inner gave back
new_w ==
    /\ sink = "writer"
    /\ Len(issued) < MaxOps
    /\ sink' = "sink"
    /\ result' = "none"
    /\ UNCHANGED <<stream, op, eint, before, pending, issued, wrapped>>

\* into_inner consumes the sink and gives the writer back
into_inner ==
    /\ sink = "sink"
    /\ sink' = "writer"
    /\ UNCHANGED <<stream, op, eint, before, pending, result, issued, wrapped>>

\* arguments of the calls made in a chain
ChainInts == { Lit("u8", Zs(1)), Lit("i16", Zs(-129)) }

ChainLens == { Lit("u32", Zs(1)), Lit("u32", Zs(16)) }

ChainData == { <<161>> }

ChainTys == { Lit("i8", Zs(1)), Lit("i8", Zs(-1)) }

ChainValues == { Map(<< <<One, Nil>> >>) }

NextChain ==
    \/ write_nil
    \/ write_bool({TRUE})
    \/ write_int(ChainInts)
    \/ write_array_len(ChainLens)
    \/ write_map_len(ChainLens)
    \/ write_str(ChainData)
    \/ write_ext(ChainData, ChainTys)
    \/ write_value(ChainValues)
    \/ write_all_ok
    \/ write_all_err
    \/ panic
    \/ new_w
    \/ into_inner

SpecChain == Init /\ [][NextChain]_vars

\* ------------------------------------------------------------ properties
IsPrefix(a, b) == Len(a) <= Len(b) /\ SubSeq(b, 1, Len(a)) = a

RECURSIVE Flat(_)
\* the bytes a sequence of steps writes when every step succeeds
Flat(fut) ==
    IF fut = <<>> THEN <<>> ELSE Head(fut).bytes \o Flat(Tail(fut))

\* the wire format's big-endian bytes of a non-negative number below 2^16
\* and below 2^32
Bytes16(z) == <<z.mag[4] \div 256, z.mag[4] % 256>>

Bytes32(z) ==
    <<z.mag[3] \div 256, z.mag[3] % 256, z.mag[4] \div 256, z.mag[4] % 256>>

\* the number that big-endian bytes hold, read as the integer kind ty
FromBE(bytes, ty) ==
    Num(Native(ty,
        IF Len(bytes) = 1 THEN bytes
        ELSE [i \in 1..(Len(bytes) \div 2) |->
                bytes[2 * i - 1] * 256 + bytes[2 * i]]))

Tags ==
    {"FixPos", "U8", "U16", "U32", "U64", "FixNeg", "I8", "I16", "I32", "I64"}

UnsignedTags == {"FixPos", "U8", "U16", "U32", "U64"}

\* bytes of a variant on the wire: marker and payload
EncodedLen(tag) ==
    CASE tag \in {"FixPos", "FixNeg"} -> 1
      [] tag \in {"U8", "I8"} -> 2
      [] tag \in {"U16", "I16"} -> 3
      [] tag \in {"U32", "I32"} -> 5
      [] tag \in {"U64", "I64"} -> 9

\* the variant can hold the number exactly
CanHold(tag, z) ==
    CASE tag = "FixPos" -> ZBetween(Zs(0), z, Zs(127))
      [] tag = "FixNeg" -> ZBetween(Zs(-32), z, Zs(-1))
      [] OTHER -> InRange(PayloadType(tag), z)

\* C1: the variant write_int selects for a native integer v of any
\* supported type can hold v, no variant that can hold v has fewer encoded
\* bytes, and it is an unsigned variant whenever v is non-negative.
C1_FewestBytes ==
    op.name = "write_int" =>
        LET v == Num(op.int)
        IN  /\ eint.tag \in Tags
            /\ CanHold(eint.tag, v)
            /\ \A t \in Tags :
                  CanHold(t, v) => EncodedLen(eint.tag) <= EncodedLen(t)
            /\ ~v.neg => eint.tag \in UnsignedTags

\* 1000i16 fits U16 and I16 alike (3 bytes each) and is given U16
C1_Witness ==
    /\ op.name = "write_int"
    /\ op.int.ty = "i16"
    /\ Num(op.int) = Zs(1000)
    /\ eint.tag = "U16"

\* the boundary table of the selector
TableTag(z) ==
    IF ~z.neg
    THEN IF ZLe(z, Zs(127)) THEN "FixPos"
         ELSE IF ZLe(z, Zs(255)) THEN "U8"
         ELSE IF ZLe(z, Zs(65535)) THEN "U16"
         ELSE IF ZLe(z, Pz(0, 0, 65535, 65535)) THEN "U32"
         ELSE "U64"
    ELSE IF ZLe(Zs(-32), z) THEN "FixNeg"
         ELSE IF ZLe(Zs(-128), z) THEN "I8"
         ELSE IF ZLe(Zs(-32768), z) THEN "I16"
         ELSE IF ZLe(Nz(0, 0, 32768, 0), z) THEN "I32"
         ELSE "I64"

\* C2: the selector switches variant exactly at the boundary values,
\* whatever native type the value arrives in: 0..127 FixPos, 128..255 U8,
\* 256..65535 U16, 65536..2^32-1 U32, above U64; -1..-32 FixNeg,
\* -33..-128 I8, -129..-32768 I16, -32769..-2^31 I32, below I64.
C2_BoundaryTable ==
    op.name = "write_int" => eint.tag = TableTag(Num(op.int))

\* -2147483649i64 is the first value that needs I64
C2_Witness ==
    /\ op.name = "write_int"
    /\ op.int.ty = "i64"
    /\ Num(op.int) = Nz(0, 0, 32768, 1)
    /\ eint.tag = "I64"

\* C3: the payload the selected variant carries, read as the integer kind
\* the variant names, is the value that was given: no narrowing and no
\* signed/unsigned delegation changed it.
C3_SelectorRoundTrip ==
    op.name = "write_int" =>
        /\ Len(eint.val.bits) = NLimbs(PayloadType(eint.tag))
        /\ Num(Native(PayloadType(eint.tag), eint.val.bits)) = Num(op.int)

\* -33i64 went through i32, i16 and i8 and is still -33
C3_Witness ==
    /\ op.name = "write_int"
    /\ op.int.ty = "i64"
    /\ Num(op.int) = Zs(-33)
    /\ eint = EfficientInt("I8", Native("i8", <<223>>))

\* the marker bytes of the integer variants that have a payload
IntMarkerByte(tag) ==
    CASE tag = "U8" -> 204
      [] tag = "U16" -> 205
      [] tag = "U32" -> 206
      [] tag = "U64" -> 207
      [] tag = "I8" -> 208
      [] tag = "I16" -> 209
      [] tag = "I32" -> 210
      [] tag = "I64" -> 211

\* C4: a write_int that succeeds has appended the marker byte of the
\* selected variant and then the value big-endian at the variant's width,
\* and for FixPos and FixNeg the marker byte alone, which holds the value;
\* write_int(4294967296) appends cf 00 00 00 01 00 00 00 00.
C4_WriteIntBytes ==
    (op.name = "write_int" /\ result = "Ok") =>
        LET a == SubSeq(stream, Len(before) + 1, Len(stream))
        IN  /\ stream = before \o a
            /\ Len(a) = EncodedLen(eint.tag)
            /\ CASE eint.tag = "FixPos" -> Zs(a[1]) = Num(op.int)
                 [] eint.tag = "FixNeg" -> Zs(a[1] - 256) = Num(op.int)
                 [] OTHER ->
                      /\ a[1] = IntMarkerByte(eint.tag)
                      /\ FromBE(Tail(a), PayloadType(eint.tag)) = Num(op.int)
            /\ Num(op.int) = Pz(0, 1, 0, 0) =>
                  a = <<207, 0, 0, 0, 1, 0, 0, 0, 0>>

C4_Witness ==
    /\ op.name = "write_int"
    /\ result = "Ok"
    /\ op.int = Lit("u64", Pz(0, 1, 0, 0))
    /\ stream = before \o <<207, 0, 0, 0, 1, 0, 0, 0, 0>>

\* the header of a count in the three length classes of arrays and maps
CountHeader(fix, m16, m32, z) ==
    IF ZLe(z, Zs(15)) THEN <<fix + z.mag[4]>>
    ELSE IF ZLe(z, Zs(65535)) THEN <<m16>> \o Bytes16(z)
    ELSE <<m32>> \o Bytes32(z)

\* C5: write_array_len(n) and write_map_len(n) that succeed have appended
\* the fixed marker carrying n when n <= 15, the 16-bit marker and n in 2
\* big-endian bytes when 16 <= n <= 65535, and else the 32-bit marker and
\* n in 4 big-endian bytes.
C5_CountHeader ==
    /\ (op.name = "write_array_len" /\ result = "Ok") =>
          stream = before \o CountHeader(144, 220, 221, Num(op.len))
    /\ (op.name = "write_map_len" /\ result = "Ok") =>
          stream = before \o CountHeader(128, 222, 223, Num(op.len))

C5_Witness ==
    /\ op.name = "write_map_len"
    /\ result = "Ok"
    /\ Num(op.len) = Pz(0, 0, 1, 0)
    /\ stream = before \o <<223, 0, 1, 0, 0>>

\* the header of a length in the 8-, 16- and 32-bit classes
LenHeader(m8, m16, m32, z) ==
    IF ZLe(z, Zs(255)) THEN <<m8, z.mag[4]>>
    ELSE IF ZLe(z, Zs(65535)) THEN <<m16>> \o Bytes16(z)
    ELSE <<m32>> \o Bytes32(z)

\* C6: write_str_len(n) and write_bin_len(n) that succeed have appended
\* the narrowest length class that holds n, the length big-endian: strings
\* the fixed form up to 31, then the 8-, 16- and 32-bit forms; binary the
\* 8-, 16- and 32-bit forms only, 0 included.
C6_LenHeader ==
    /\ (op.name = "write_str_len" /\ result = "Ok") =>
          stream = before \o
              (IF ZLe(Num(op.len), Zs(31)) THEN <<160 + Num(op.len).mag[4]>>
               ELSE LenHeader(217, 218, 219, Num(op.len)))
    /\ (op.name = "write_bin_len" /\ result = "Ok") =>
          stream = before \o LenHeader(196, 197, 198, Num(op.len))

C6_Witness ==
    /\ op.name = "write_bin_len"
    /\ result = "Ok"
    /\ Num(op.len) = Zs(0)
    /\ stream = before \o <<196, 0>>

\* the fixed markers of the extension lengths 1, 2, 4, 8 and 16
FixExtByte(n) ==
    CASE n = 1 -> 212 [] n = 2 -> 213 [] n = 4 -> 214 [] n = 8 -> 215
      [] n = 16 -> 216

\* C7: write_ext_meta(n, ty) with ty >= 0 that succeeds has appended a
\* fixed one-byte marker exactly when n is 1, 2, 4, 8 or 16, and else the
\* 8-, 16- or 32-bit marker and n big-endian (n = 0 in the 8-bit form),
\* and after the header one byte that holds ty.
C7_ExtHeader ==
    (op.name = "write_ext_meta" /\ result = "Ok") =>
        LET n == Num(op.len)
            fixed == n \in {Zs(1), Zs(2), Zs(4), Zs(8), Zs(16)}
            head == IF fixed THEN <<FixExtByte(n.mag[4])>>
                    ELSE LenHeader(199, 200, 201, n)
        IN  /\ ~Num(op.int).neg
            /\ stream = before \o head \o <<Num(op.int).mag[4]>>
            /\ (Len(stream) - Len(before) = 2) <=> fixed

C7_Witness ==
    /\ op.name = "write_ext_meta"
    /\ result = "Ok"
    /\ Num(op.len) = Zs(0)
    /\ stream = before \o <<199, 0, 42>>

\* the bytes of a value tree on the wire
Enc(value) == Flat(write_value_fut(value))

RECURSIVE EncAll(_)
\* the encodings of a sequence of values, one after the other
EncAll(values) ==
    IF values = <<>> THEN <<>> ELSE Enc(Head(values)) \o EncAll(Tail(values))

RECURSIVE KeysAndValues(_)
\* key 1, value 1, key 2, value 2, ...
KeysAndValues(pairs) ==
    IF pairs = <<>> THEN <<>>
    ELSE <<Head(pairs)[1], Head(pairs)[2]>> \o KeysAndValues(Tail(pairs))

\* header declaring exactly the node's count, then each child whole and
\* in order (for a map each key and then its value)
DepthFirst(value) ==
    IF value.kind = "Array"
    THEN CountHeader(144, 220, 221, Zs(Len(value.items)))
         \o EncAll(value.items)
    ELSE CountHeader(128, 222, 223, Zs(Len(value.items)))
         \o EncAll(KeysAndValues(value.items))

\* C8: write_value on an Array or Map node emits the header declaring
\* exactly the number of children (pairs) and then the complete encoding
\* of each child in order, for a map each key followed by its value: at
\* every moment the bytes appended are a prefix of that sequence, and all
\* of it once the operation has succeeded; [1] is emitted as 91 01.
C8_DepthFirst ==
    (op.name = "write_value" /\ op.value.kind \in {"Array", "Map"}) =>
        LET a == SubSeq(stream, Len(before) + 1, Len(stream))
        IN  /\ stream = before \o a
            /\ IsPrefix(a, DepthFirst(op.value))
            /\ result = "Ok" => a = DepthFirst(op.value)
            /\ (result = "Ok" /\ op.value = Array(<<One>>)) => a = <<145, 1>>

\* {1: [1], 128: 1} is 82 01 91 01 cc 80 01
C8_Witness ==
    /\ op.name = "write_value"
    /\ op.value = TwoPairs
    /\ result = "Ok"
    /\ stream = before \o <<130, 1, 145, 1, 204, 128, 1>>

\* C9: a failed stream write aborts the operation at once: the operation
\* returns the error with no step left to do and without handing the
\* stream back, what was written stays written, and after the error the
\* stream receives no further byte.
C9_AbortOnError ==
    [][ /\ result' = "Err" =>
              /\ sink' = "dropped"
              /\ pending' = <<>>
              /\ IsPrefix(before', stream')
        /\ (result # "Err" /\ result' = "Err") =>
              /\ pending # <<>>
              /\ IsPrefix(stream, stream')
              /\ IsPrefix(stream', stream \o Head(pending).bytes)
              /\ stream' # stream \o Head(pending).bytes
        /\ result = "Err" => (stream' = stream \/ result' = "none") ]_vars

\* the write of the 1 inside [[1], 1] failed: its header and the inner
\* header stay, nothing of the inner 1 or the outer 1 follows
C9_Witness ==
    /\ op.name = "write_value"
    /\ op.value = Nested
    /\ result = "Err"
    /\ sink = "dropped"
    /\ stream = before \o <<146, 145>>

\* the call is one that reaches write_ext_meta with a negative type tag
NegativeTy ==
    \/ op.name \in {"write_ext_meta", "write_ext"} /\ Num(op.int).neg
    \/ /\ op.name = "write_value"
       /\ op.value.kind = "Ext"
       /\ Num(op.value.int).neg

\* C10: write_ext_meta with a negative type tag, called directly or
\* through write_ext or write_value on an Extension node, panics for every
\* length before any byte is written: it never ends in Ok or Err.
C10_NegativeTyPanics ==
    NegativeTy =>
        /\ stream = before
        /\ result \in {"none", "Panic"}
        /\ result = "none" => (pending # <<>> /\ Head(pending).panic)

C10_Witness ==
    /\ op.name = "write_value"
    /\ op.value = Ext(Lit("i8", Zs(-128)), <<161, 162>>)
    /\ result = "Panic"
    /\ stream = before


\* ------------------------------------------------ chains of operations
\* the future the recorded call o makes, from its arguments alone
Fut(o) ==
    CASE o.name = "write_nil" -> write_nil_fut
      [] o.name = "write_bool" -> write_bool_fut(o.b)
      [] o.name = "write_int" -> write_int_fut(o.int)
      [] o.name = "write_f32" -> write_f32_fut(o.int)
      [] o.name = "write_f64" -> write_f64_fut(o.int)
      [] o.name = "write_array_len" -> write_array_len_fut(o.len)
      [] o.name = "write_map_len" -> write_map_len_fut(o.len)
      [] o.name = "write_bin_len" -> write_bin_len_fut(o.len)
      [] o.name = "write_bin" -> write_bin_fut(o.data)
      [] o.name = "write_str_len" -> write_str_len_fut(o.len)
      [] o.name = "write_str_bytes" -> write_str_bytes_fut(o.data)
      [] o.name = "write_str" -> write_str_fut(o.data)
      [] o.name = "write_ext_meta" -> write_ext_meta_fut(o.len, o.int)
      [] o.name = "write_ext" -> write_ext_fut(o.data, o.int)
      [] o.name = "write_value" -> write_value_fut(o.value)
      [] OTHER -> <<>>

\* the bytes the call o appends when all of its writes succeed
Whole(o) == Flat(Fut(o))

\* C11 as stated: on success the operation returns a fresh Sink, so that
\* the caller holds a Sink again on which the next write can be called
\* directly.
C11_ReturnsSink ==
    result = "Ok" => sink = "sink"

\* C11, amended: every public write operation takes ownership of the Sink
\* (while it is in progress the caller holds neither a Sink nor the
\* writer) and, on success, returns ownership of the underlying writer
\* itself, not wrapped: the caller holds a Sink again only after
\* MsgPackSink::new on the returned writer. After an error or a panic the
\* caller gets nothing back.
C11_ReturnsWriter ==
    /\ pending # <<>> => sink = "busy"
    /\ sink = "busy" => pending # <<>> /\ result = "none"
    /\ result = "Ok" =>
          sink = "writer" /\ pending = <<>> /\ stream = before \o Whole(op)
    /\ result \in {"Err", "Panic"} => sink = "dropped" /\ pending = <<>>
    /\ sink = "sink" => result = "none" /\ pending = <<>>

\* the second write of a chain has succeeded: its writer came from the
\* first write's Ok(w), wrapped again by MsgPackSink::new
C11_Witness ==
    /\ Len(issued) = 2
    /\ result = "Ok"
    /\ sink = "writer"
    /\ issued[1].name = "write_array_len"
    /\ issued[2].name = "write_int"

RECURSIVE WholeAll(_)
\* the whole outputs of the calls os, one after the other
WholeAll(os) ==
    IF os = <<>> THEN <<>> ELSE Whole(Head(os)) \o WholeAll(Tail(os))

\* the stream is what the writer held when it was wrapped, then the whole
\* output of every call but the last, then a prefix of the last call's
\* output (all of it once that call has returned Ok)
WholeOutputsInOrder ==
    IF issued = <<>> THEN stream = wrapped
    ELSE LET n == Len(issued)
             done == wrapped \o WholeAll(SubSeq(issued, 1, n - 1))
             rest == SubSeq(stream, Len(done) + 1, Len(stream))
         IN  /\ stream = done \o rest
             /\ IsPrefix(rest, Whole(issued[n]))
             /\ sink \in {"sink", "writer"} => rest = Whole(issued[n])

AppendsOwnOutput ==
    /\ IsPrefix(before, stream)
    /\ IsPrefix(SubSeq(stream, Len(before) + 1, Len(stream)), Whole(op))
    /\ result = "Ok" => stream = before \o Whole(op)
    /\ result = "Panic" => NegativeTy

\* C15: the encoder keeps no state between calls: the bytes a write
\* appends are determined by its arguments alone, whatever was written
\* before on the stream, and earlier bytes never change. After
\* write_array_len(n) or write_map_len(n) no count is tracked: a later
\* call fails only because the writer did not accept all the bytes of a
\* write, and panics only on a negative extension type, however many
\* children were written.
C15_Stateless ==
    /\ []AppendsOwnOutput
    /\ [][(result' = "Err" /\ result # "Err") =>
             /\ pending # <<>>
             /\ Len(stream') - Len(stream) < Len(Head(pending).bytes)]_vars

\* write_array_len(1) followed by two children, all three successful
C15_Witness ==
    /\ Len(issued) = 3
    /\ issued[1] = Op("write_array_len", NoInt, Lit("u32", Zs(1)), <<>>,
                      FALSE, Nil)
    /\ issued[2].name = "write_int"
    /\ issued[3].name = "write_int"
    /\ result = "Ok"
    /\ stream = wrapped \o <<145, 1, 1>>

\* ------------------------------------------- write_value and typed writes
RECURSIVE Typed(_)
RECURSIVE TypedAll(_)
\* the bytes of the typed write operations that correspond to a tree: one
\* typed write for a scalar node; the length header and then the
\* children's writes for an Array or a Map
Typed(value) ==
    CASE value.kind = "Nil" -> Flat(write_nil_fut)
      [] value.kind = "Boolean" -> Flat(write_bool_fut(value.b))
      [] value.kind = "Integer" -> Flat(write_int_fut(value.int))
      [] value.kind = "F32" -> Flat(write_f32_fut(value.int))
      [] value.kind = "F64" -> Flat(write_f64_fut(value.int))
      [] value.kind = "String" -> Flat(write_str_fut(value.bytes))
      [] value.kind = "Binary" -> Flat(write_bin_fut(value.bytes))
      [] value.kind = "Ext" -> Flat(write_ext_fut(value.bytes, value.int))
      [] value.kind = "Array" ->
            Flat(write_array_len_fut(Lit("u32", Zs(Len(value.items)))))
            \o TypedAll(value.items)
      [] value.kind = "Map" ->
            Flat(write_map_len_fut(Lit("u32", Zs(Len(value.items)))))
            \o TypedAll(KeysAndValues(value.items))

TypedAll(values) ==
    IF values = <<>> THEN <<>>
    ELSE Typed(Head(values)) \o TypedAll(Tail(values))

\* write_int gives an Integer node the same bytes through every 64-bit
\* type that holds its value
PathsAgree(value) ==
    \A ty \in {"i64", "u64"} :
        InRange(ty, Num(value.int)) =>
            Flat(write_int_fut(Lit(ty, Num(value.int))))
                = Flat(write_int_fut(value.int))

\* C13: write_value(tree) appends exactly the bytes of the corresponding
\* typed writes (write_nil, write_bool, write_int, write_f32/f64,
\* write_str, write_bin, write_ext, write_array_len/write_map_len followed
\* by the children's writes): a prefix of them at every moment, all of
\* them on success; an Integer node gets the same bytes whether its value
\* is written as an i64 or as a u64.
C13_ValueAsTypedWrites ==
    op.name = "write_value" =>
        LET a == SubSeq(stream, Len(before) + 1, Len(stream))
        IN  /\ stream = before \o a
            /\ IsPrefix(a, Typed(op.value))
            /\ result = "Ok" => a = Typed(op.value)
            /\ op.value.kind = "Integer" => PathsAgree(op.value)

\* [[1], 1] is 92 91 01 01
C13_Witness ==
    /\ op.name = "write_value"
    /\ op.value = Nested
    /\ result = "Ok"
    /\ stream = before \o <<146, 145, 1, 1>>

\* ------------------------------------------------- header, then payload
\* the header that the length operation emits for the payload of the
\* recorded call: write_bin_len, write_str_len or write_ext_meta with the
\* payload's byte length
HeaderFor(o) ==
    LET len == Lit("u32", Zs(Len(o.data)))
    IN  CASE o.name = "write_bin" -> Flat(write_bin_len_fut(len))
          [] o.name \in {"write_str", "write_str_bytes"} ->
                Flat(write_str_len_fut(len))
          [] o.name = "write_ext" -> Flat(write_ext_meta_fut(len, o.int))

\* C14: write_bin(data), write_str(text), write_str_bytes(bytes) and
\* write_ext(data, ty) append the header that write_bin_len,
\* write_str_len or write_ext_meta emits for the payload's byte length,
\* then the payload bytes unchanged and in order, and nothing else: what
\* is appended is at every moment a prefix of header and payload, so no
\* payload byte is written before the header is complete; when only the
\* payload write is left the header is whole, and on success all is
\* written.
C14_HeaderThenPayload ==
    op.name \in {"write_bin", "write_str", "write_str_bytes", "write_ext"} =>
        LET a == SubSeq(stream, Len(before) + 1, Len(stream))
        IN  /\ stream = before \o a
            /\ IsPrefix(a, HeaderFor(op) \o op.data)
            /\ Len(pending) = 1 => a = HeaderFor(op)
            /\ result = "Ok" => a = HeaderFor(op) \o op.data

\* write_ext of two bytes with type 42 is d5 2a and the two bytes
C14_Witness ==
    /\ op.name = "write_ext"
    /\ Num(op.int) = Zs(42)
    /\ op.data = <<161, 162>>
    /\ result = "Ok"
    /\ stream = before \o <<213, 42, 161, 162>>

\* ------------------------------------------- one variant for each number
\* the range of numbers each variant is selected for
VariantRange(tag, z) ==
    CASE tag = "FixPos" -> ZBetween(Zs(0), z, Zs(127))
      [] tag = "U8" -> ZBetween(Zs(128), z, Zs(255))
      [] tag = "U16" -> ZBetween(Zs(256), z, Zs(65535))
      [] tag = "U32" ->
            ZBetween(Pz(0, 0, 1, 0), z, Pz(0, 0, 65535, 65535))
      [] tag = "U64" -> ~z.neg /\ ZLt(Pz(0, 0, 65535, 65535), z)
      [] tag = "FixNeg" -> ZBetween(Zs(-32), z, Zs(-1))
      [] tag = "I8" -> ZBetween(Zs(-128), z, Zs(-33))
      [] tag = "I16" -> ZBetween(Zs(-32768), z, Zs(-129))
      [] tag = "I32" -> ZBetween(Nz(0, 0, 32768, 0), z, Zs(-32769))
      [] tag = "I64" -> z.neg /\ ZLt(z, Nz(0, 0, 32768, 0))

\* C16: the selector's result depends only on the number and not on the
\* native type it arrives in: every supported type that can hold the
\* number yields the same variant with the same payload, and the number
\* lies in the range of that variant and of no other (FixPos 0..127,
\* U8 128..255, U16 256..65535, U32 65536..2^32-1, U64 above;
\* FixNeg -32..-1, I8 -128..-33, I16 -32768..-129, I32 -2^31..-32769,
\* I64 below).
C16_OneVariantPerValue ==
    op.name = "write_int" =>
        LET v == Num(op.int)
        IN  /\ \A ty \in IntTypes :
                  InRange(ty, v) => From(Lit(ty, v)) = eint
            /\ \A t \in Tags : VariantRange(t, v) <=> t = eint.tag

\* 65535 arrives as an i32 and is given U16, as from a u16 or a u64
C16_Witness ==
    /\ op.name = "write_int"
    /\ op.int.ty = "i32"
    /\ Num(op.int) = Zs(65535)
    /\ eint = EfficientInt("U16", Lit("u16", Zs(65535)))
    /\ From(Lit("u64", Zs(65535))) = eint

====
